---- MODULE Spec2Model ----
(***************************************************************************)
(* Model of quackey's account persistence layer (src/src/storage.rs) and   *)
(* of the Account record it stores (src/src/account.rs).                   *)
(*                                                                         *)
(* The file system, the logger and the process are the environment: every  *)
(* fallible call the code makes (create_dir_all, File::create, write_all,  *)
(* File::open, read_to_string, fs::rename, Logger::log) can fail, and the  *)
(* failure is chosen by an oracle that each operation receives.            *)
(*                                                                         *)
(* Five specifications: Spec, the store from the start of the process;     *)
(* ListSpec, an open store whose caller also takes lists; TotpSpec, code   *)
(* generation for one stored account; RemainingSpec, time_remaining over   *)
(* every period and clock reading of a scaled-down u64; MenuSpec, the add, *)
(* edit, delete and generate flows of main.rs over an empty store.         *)
(***************************************************************************)
EXTENDS Integers, Sequences, FiniteSets, TLC

\* ------------------------------------------------------------------ bounds
\* Longest account list an add may extend.
MaxAccounts == 2
\* Number of store operations in one explored run.
MaxSteps == 3
\* Highest index of a Logger call inside one operation that the oracle may break.
MaxLogCalls == 4
\* Width in bits of the model's u64.
U64Bits == 5
\* The latest clock reading at which a code is generated.
MaxTime == 9

\* --------------------------------------------------------- program constants
default_period == 30
default_digits == 6
default_algorithm == "Sha1"

\* ------------------------------------------------------------ value domains
\* Option<String>
None == [some |-> FALSE, v |-> ""]
Some(s) == [some |-> TRUE, v |-> s]

\* JSON scalars as serde_json sees them.
JStr(s) == [t |-> "s", s |-> s, n |-> 0]
JNum(n) == [t |-> "n", s |-> "", n |-> n]
JNull == [t |-> "null", s |-> "", n |-> 0]

\* Result<(), AppError>: the variant and the call that produced it.
Ok == [ok |-> TRUE, kind |-> "", what |-> "", arg |-> ""]
Err(kind, what, arg) == [ok |-> FALSE, kind |-> kind, what |-> what, arg |-> arg]

\* impl From<Algorithm> for totp_rs::Algorithm, used by Account::algorithm().
TotpAlgorithm(algo) ==
    CASE algo = "Sha1" -> "SHA1"
      [] algo = "Sha256" -> "SHA256"
      [] algo = "Sha512" -> "SHA512"

\* Account::new: the totp_rs algorithm is converted to the crate's own enum.
Account(name, secret, digits, period, algorithm, issuer) ==
    [name |-> name, secret |-> secret, digits |-> digits, period |-> period,
     algorithm |-> CASE algorithm = "SHA1" -> "Sha1"
                     [] algorithm = "SHA256" -> "Sha256"
                     [] algorithm = "SHA512" -> "Sha512",
     issuer |-> issuer]

\* The storage paths of the model. P1 is the default path of the
\* configuration, a bare file name: its parent is the empty path "".
\* P2 lives in a directory of its own.
P1 == "accounts.json"
P2 == "data/accounts.json"
Paths == {P1, P2}
Bak(p) == IF p = P1 THEN "accounts.json.bak" ELSE "data/accounts.json.bak"
FileNames == Paths \cup {Bak(p) : p \in Paths}

\* Path::parent. None only for a root or the empty path, which no storage
\* path of the model is.
HasParent(p) == p \in FileNames
Parent(p) == IF p \in {P1, Bak(P1)} THEN "" ELSE "data"
Dirs == {"", "data"}

\* ------------------------------------------------------------ file contents
Absent == [kind |-> "absent", recs |-> <<>>]
Empty == [kind |-> "empty", recs |-> <<>>]
Garbage == [kind |-> "garbage", recs |-> <<>>]
\* A non-empty strict prefix of the text of recs.
Partial(recs) == [kind |-> "partial", recs |-> recs]
\* The complete text of a JSON array of objects.
Json(recs) == [kind |-> "json", recs |-> recs]

\* ------------------------------------------------------------ serialization
\* #[serde(rename = ...)] of enum Algorithm.
AlgorithmName(alg) ==
    CASE alg = "Sha1" -> "SHA1"
      [] alg = "Sha256" -> "SHA256"
      [] alg = "Sha512" -> "SHA512"

AlgorithmOfName(s) ==
    CASE s = "SHA1" -> "Sha1"
      [] s = "SHA256" -> "Sha256"
      [] s = "SHA512" -> "Sha512"

\* Mutant of SerializeAccount: the issuer is never written.
SerializeAccount_NullIssuer(a) ==
    [name |-> JStr(a.name), secret |-> JStr(a.secret),
     digits |-> JNum(a.digits), period |-> JNum(a.period),
     algorithm |-> JStr(AlgorithmName(a.algorithm)),
     issuer |-> JNull]

\* derive(Serialize) of struct Account: every field is written, an absent
\* issuer as null.
SerializeAccount(a) ==
    [name |-> JStr(a.name), secret |-> JStr(a.secret),
     digits |-> JNum(a.digits), period |-> JNum(a.period),
     algorithm |-> JStr(AlgorithmName(a.algorithm)),
     issuer |-> IF a.issuer.some THEN JStr(a.issuer.v) ELSE JNull]

\* serde_json::to_string_pretty(&self.accounts)
Serialize(accs) == [i \in 1..Len(accs) |-> SerializeAccount(accs[i])]

\* derive(Deserialize) of struct Account accepts an object when name and
\* secret are strings, digits and period (if present) are unsigned numbers,
\* algorithm (if present) is one of the renamed variants and issuer (if
\* present) is a string or null. Unknown fields are ignored.
Deserializable(j) ==
    /\ "name" \in DOMAIN j /\ j.name.t = "s"
    /\ "secret" \in DOMAIN j /\ j.secret.t = "s"
    /\ "digits" \in DOMAIN j => (j.digits.t = "n" /\ j.digits.n >= 0)
    /\ "period" \in DOMAIN j => (j.period.t = "n" /\ j.period.n >= 0)
    /\ "algorithm" \in DOMAIN j =>
          (j.algorithm.t = "s" /\ j.algorithm.s \in {"SHA1", "SHA256", "SHA512"})
    /\ "issuer" \in DOMAIN j => j.issuer.t \in {"s", "null"}

\* Mutant of DeserializeAccount: an omitted period is u64::default().
DeserializeAccount_ZeroPeriod(j) ==
    [name |-> j.name.s,
     secret |-> j.secret.s,
     digits |-> IF "digits" \in DOMAIN j THEN j.digits.n ELSE default_digits,
     period |-> IF "period" \in DOMAIN j THEN j.period.n ELSE 0,
     algorithm |-> IF "algorithm" \in DOMAIN j
                   THEN AlgorithmOfName(j.algorithm.s) ELSE default_algorithm,
     issuer |-> IF "issuer" \in DOMAIN j /\ j.issuer.t = "s"
                THEN Some(j.issuer.s) ELSE None]

\* Mutant of DeserializeAccount: digits is not read, the default is taken.
DeserializeAccount_DefaultDigits(j) ==
    [name |-> j.name.s,
     secret |-> j.secret.s,
     digits |-> default_digits,
     period |-> IF "period" \in DOMAIN j THEN j.period.n ELSE default_period,
     algorithm |-> IF "algorithm" \in DOMAIN j
                   THEN AlgorithmOfName(j.algorithm.s) ELSE default_algorithm,
     issuer |-> IF "issuer" \in DOMAIN j /\ j.issuer.t = "s"
                THEN Some(j.issuer.s) ELSE None]

DeserializeAccount(j) ==
    [name |-> j.name.s,
     secret |-> j.secret.s,
     digits |-> IF "digits" \in DOMAIN j THEN j.digits.n ELSE default_digits,
     period |-> IF "period" \in DOMAIN j THEN j.period.n ELSE default_period,
     algorithm |-> IF "algorithm" \in DOMAIN j
                   THEN AlgorithmOfName(j.algorithm.s) ELSE default_algorithm,
     issuer |-> IF "issuer" \in DOMAIN j /\ j.issuer.t = "s"
                THEN Some(j.issuer.s) ELSE None]

\* serde_json::from_str::<Vec<Account>>(&contents) succeeds.
Parses(content) ==
    /\ content.kind = "json"
    /\ \A i \in 1..Len(content.recs) : Deserializable(content.recs[i])

Deserialize(content) ==
    [i \in 1..Len(content.recs) |-> DeserializeAccount(content.recs[i])]

\* ------------------------------------------------------------- environment
\* What the environment does to the calls of one operation:
\*   io     the file-system call that fails ("none": all succeed),
\*   log    the index of the first Logger call that fails (0: none fails),
\*   after  the Logger call that reports the failed file-system call fails,
\*   rename whether fs::rename succeeds.
\* A Logger call that fails before the file-system call is reached ends the
\* operation, so log and io are not both set.
\* The calls that can fail in an operation that loads, and in one that saves.
LoadFaults == {"none", "mkdir", "open", "read"}
SaveFaults == {"none", "mkdir", "create", "write_none", "write_part"}
\* Without a logger no Logger call is made, so none can fail.
LogFaults(lg) == IF lg THEN 0..MaxLogCalls ELSE {0}
Oracles(faults, lg, renames) ==
    {o \in [io : faults, log : LogFaults(lg), after : BOOLEAN, rename : renames] :
        /\ o.io = "none" \/ o.log = 0
        /\ o.after => (lg /\ o.io \notin {"none", "mkdir"})}
\* The environment in which every call succeeds.
NoFault == [io |-> "none", log |-> 0, after |-> FALSE, rename |-> TRUE]
\* A file-system call of the operation has failed.
Failed(io) ==
    \E i \in 1..Len(io) :
        io[i] \in {"create_failed", "write_failed", "open_failed", "read_failed"}

\* Path::exists
FileExists(m, p) == m.files[p].kind # "absent"
\* Path::exists of a directory. The empty path never exists.
DirExists(m, d) == d # "" /\ m.dirs[d]

\* Storage::log: Ok without a logger; with one, the event is delivered
\* unless the Logger call fails.
Log(m, level, o) ==
    IF ~m.logger THEN [m |-> m, r |-> Ok]
    ELSE LET k == m.nlog + 1 IN
         IF (o.log # 0 /\ k >= o.log) \/ (o.after /\ Failed(m.io))
         THEN [m |-> [m EXCEPT !.nlog = k, !.io = Append(@, "log_failed")],
               r |-> Err("FileError", "log", "")]
         ELSE [m |-> [m EXCEPT !.nlog = k, !.io = Append(@, level)], r |-> Ok]

\* fs::create_dir_all: Ok at once for the empty path.
CreateDirAll(m, d, o) ==
    IF d = "" THEN [m |-> m, r |-> Ok]
    ELSE IF o.io = "mkdir"
         THEN [m |-> [m EXCEPT !.io = Append(@, "mkdir_failed")],
               r |-> Err("FileError", "mkdir", "")]
         ELSE [m |-> [m EXCEPT !.dirs[d] = TRUE, !.io = Append(@, "mkdir")],
               r |-> Ok]

\* The trace of the branch of ensure_directory that finds no directory:
\* "create_dir_all" when the call returned Ok, "WARN" and "INFO" when the
\* two events of that branch were delivered to a logger.
Noted(m, what) ==
    IF what = "create_dir_all" \/ m.logger THEN [m EXCEPT !.dir = Append(@, what)]
    ELSE m

\* Storage::ensure_directory
ensure_directory(m, o) ==
    LET p == m.file_path IN
    IF HasParent(p)
    THEN IF ~DirExists(m, Parent(p))
         THEN LET mk == CreateDirAll(m, Parent(p), o) IN
              IF ~mk.r.ok THEN mk
              ELSE IF ~m.created
              THEN LET w == Log(Noted(mk.m, "create_dir_all"), "WARN", o) IN
                   IF ~w.r.ok THEN w
                   ELSE LET i == Log(Noted(w.m, "WARN"), "INFO", o) IN
                        IF ~i.r.ok THEN i
                        ELSE [m |-> [Noted(i.m, "INFO") EXCEPT !.created = TRUE],
                              r |-> Ok]
              ELSE [m |-> Noted(mk.m, "create_dir_all"), r |-> Ok]
         ELSE [m |-> m, r |-> Ok]
    ELSE IF ~FileExists(m, p) /\ m.logger
         THEN Log(m, "WARN", o)
         ELSE [m |-> m, r |-> Ok]

\* ------------------------------------------------------------------ Storage
\* Mutant of load_empty: an empty file is reported as a parse error.
load_empty_AsParseError(m, o) ==
    LET e == Log(m, "ERROR", o) IN
    IF ~e.r.ok THEN e ELSE [m |-> e.m, r |-> Err("JsonError", "parse", "")]

\* Storage::load on a file that was read and is empty: a warning, and Ok
\* with self.accounts as it is.
load_empty(m, o) ==
    LET w == Log(m, "WARN", o) IN
    IF ~w.r.ok THEN w ELSE [m |-> w.m, r |-> Ok]

\* Storage::load
load(m, o) ==
    LET p == m.file_path
        content == m.files[p] IN
    IF ~FileExists(m, p)
    THEN LET w == Log([m EXCEPT !.accounts = <<>>], "WARN", o) IN
         IF ~w.r.ok THEN w ELSE [m |-> w.m, r |-> Ok]
    ELSE IF o.io = "open"
    THEN [m |-> Log([m EXCEPT !.io = Append(@, "open_failed")], "ERROR", o).m,
          r |-> Err("FileError", "open", "")]
    ELSE IF o.io = "read"
    THEN [m |-> Log([m EXCEPT !.io = Append(@, "read_failed")], "ERROR", o).m,
          r |-> Err("FileError", "read", "")]
    ELSE IF content.kind = "empty"
    THEN load_empty(m, o)
    ELSE IF Parses(content)
    THEN LET i == Log([m EXCEPT !.accounts = Deserialize(content)], "INFO", o) IN
         IF ~i.r.ok THEN i ELSE [m |-> i.m, r |-> Ok]
    ELSE LET e == Log(m, "ERROR", o) IN
         IF ~e.r.ok THEN e ELSE [m |-> e.m, r |-> Err("JsonError", "parse", "")]

\* File::create followed by write_all, as Storage::save calls them: the
\* file is truncated when it is opened and filled by the write; a write
\* that fails leaves nothing or a strict prefix of the text.
WriteFile(m, p, recs, o) ==
    IF o.io = "create"
    THEN [m |-> [m EXCEPT !.io = Append(@, "create_failed")],
          r |-> Err("FileError", "create", "")]
    ELSE IF o.io = "write_none"
    THEN [m |-> [m EXCEPT !.files[p] = Empty,
                          !.io = @ \o <<"create", "write_failed">>],
          r |-> Err("FileError", "write", "")]
    ELSE IF o.io = "write_part"
    THEN [m |-> [m EXCEPT !.files[p] = Partial(recs),
                          !.io = @ \o <<"create", "write_failed">>],
          r |-> Err("FileError", "write", "")]
    ELSE [m |-> [m EXCEPT !.files[p] = Json(recs), !.io = @ \o <<"create", "write">>],
          r |-> Ok]

\* Mutant of save: a failed write_all is logged and Ok is returned.
save_WriteUnchecked(m, o) ==
    LET d == ensure_directory(m, o) IN
    IF ~d.r.ok THEN d
    ELSE LET json == Serialize(d.m.accounts)
             w == WriteFile(d.m, d.m.file_path, json, o) IN
         IF w.r.ok
         THEN LET i == Log(w.m, "INFO", o) IN
              IF ~i.r.ok THEN i ELSE [m |-> i.m, r |-> Ok]
         ELSE IF w.r.what = "write"
         THEN [m |-> Log(w.m, "ERROR", o).m, r |-> Ok]
         ELSE LET e == Log(w.m, "ERROR", o) IN
              IF ~e.r.ok THEN e ELSE [m |-> e.m, r |-> w.r]

\* Storage::save
save(m, o) ==
    LET d == ensure_directory(m, o) IN
    IF ~d.r.ok THEN d
    ELSE LET json == Serialize(d.m.accounts)
             w == WriteFile(d.m, d.m.file_path, json, o) IN
         IF w.r.ok
         THEN LET i == Log(w.m, "INFO", o) IN
              IF ~i.r.ok THEN i ELSE [m |-> i.m, r |-> Ok]
         ELSE IF w.r.what = "write"
         THEN [m |-> Log(w.m, "ERROR", o).m, r |-> w.r]
         ELSE LET e == Log(w.m, "ERROR", o) IN
              IF ~e.r.ok THEN e ELSE [m |-> e.m, r |-> w.r]

\* Mutant of RenameToBak: the file is copied, the original stays.
RenameToBak_Copy(m, p, o) ==
    IF o.rename
    THEN [m EXCEPT !.files[Bak(p)] = m.files[p], !.io = Append(@, "rename")]
    ELSE [m EXCEPT !.io = Append(@, "rename_failed")]

\* fs::rename(file_path, file_path + ".bak")
RenameToBak(m, p, o) ==
    IF o.rename
    THEN [m EXCEPT !.files[Bak(p)] = m.files[p], !.files[p] = Absent,
                   !.io = Append(@, "rename")]
    ELSE [m EXCEPT !.io = Append(@, "rename_failed")]

\* Mutant of new_with_logger: a missing file is created, empty.
new_with_logger_Creates(m, o) ==
    LET d == ensure_directory(m, o) IN
    IF ~d.r.ok THEN d
    ELSE IF FileExists(d.m, d.m.file_path)
    THEN LET l == load(d.m, o) IN
         IF l.r.ok THEN [m |-> l.m, r |-> Ok]
         ELSE [m |-> RenameToBak(l.m, l.m.file_path, o), r |-> Ok]
    ELSE [m |-> [d.m EXCEPT !.files[d.m.file_path] = Empty], r |-> Ok]

\* Storage::new_with_logger. m is the fresh Storage (empty accounts) over
\* the current file system.
new_with_logger(m, o) ==
    LET d == ensure_directory(m, o) IN
    IF ~d.r.ok THEN d
    ELSE IF FileExists(d.m, d.m.file_path)
    THEN LET l == load(d.m, o) IN
         IF l.r.ok THEN [m |-> l.m, r |-> Ok]
         ELSE [m |-> RenameToBak(l.m, l.m.file_path, o), r |-> Ok]
    ELSE [m |-> d.m, r |-> Ok]

\* Mutant of update_file_path: a file that does not load is moved to
\* <new_path>.bak, as new_with_logger does.
update_file_path_Renames(m, new_path, o) ==
    LET i == Log([m EXCEPT !.file_path = new_path], "INFO", o) IN
    IF ~i.r.ok THEN i
    ELSE LET d == ensure_directory(i.m, o) IN
         IF ~d.r.ok THEN d
         ELSE LET l == load(d.m, o) IN
              IF l.r.ok THEN l
              ELSE [m |-> RenameToBak(l.m, l.m.file_path, NoFault), r |-> l.r]

\* Storage::update_file_path
update_file_path(m, new_path, o) ==
    LET i == Log([m EXCEPT !.file_path = new_path], "INFO", o) IN
    IF ~i.r.ok THEN i
    ELSE LET d == ensure_directory(i.m, o) IN
         IF ~d.r.ok THEN d ELSE load(d.m, o)

\* Mutant of add_account: the new account is put first.
add_account_Prepends(m, account, o) ==
    LET d == ensure_directory(m, o) IN
    IF ~d.r.ok THEN d
    ELSE LET i == Log([d.m EXCEPT !.accounts = <<account>> \o @], "INFO", o) IN
         IF ~i.r.ok THEN i ELSE save(i.m, o)

\* Mutant of add_account: the push is undone when the save fails.
add_account_RollsBack(m, account, o) ==
    LET d == ensure_directory(m, o) IN
    IF ~d.r.ok THEN d
    ELSE LET i == Log([d.m EXCEPT !.accounts = Append(@, account)], "INFO", o) IN
         IF ~i.r.ok THEN i
         ELSE LET w == save(i.m, o) IN
              IF w.r.ok THEN w ELSE [m |-> [w.m EXCEPT !.accounts = m.accounts], r |-> w.r]

\* Mutant of add_account: the new account replaces the list.
add_account_Replaces(m, account, o) ==
    LET d == ensure_directory(m, o) IN
    IF ~d.r.ok THEN d
    ELSE LET i == Log([d.m EXCEPT !.accounts = <<account>>], "INFO", o) IN
         IF ~i.r.ok THEN i ELSE save(i.m, o)

\* Storage::add_account
add_account(m, account, o) ==
    LET d == ensure_directory(m, o) IN
    IF ~d.r.ok THEN d
    ELSE LET i == Log([d.m EXCEPT !.accounts = Append(@, account)], "INFO", o) IN
         IF ~i.r.ok THEN i ELSE save(i.m, o)

\* Mutant of get_accounts: the first account is left out.
get_accounts_Tail(m) == IF m.accounts = <<>> THEN <<>> ELSE Tail(m.accounts)

\* Storage::get_accounts
get_accounts(m) == m.accounts

\* Mutant of Position: the last account of that name is found.
Position_Last(accs, name) ==
    IF \E i \in 1..Len(accs) : accs[i].name = name
    THEN CHOOSE i \in 1..Len(accs) :
            /\ accs[i].name = name
            /\ \A j \in (i + 1)..Len(accs) : accs[j].name # name
    ELSE 0

\* self.accounts.iter().position(|a| a.name() == name): 0 stands for None.
Position(accs, name) ==
    IF \E i \in 1..Len(accs) : accs[i].name = name
    THEN CHOOSE i \in 1..Len(accs) :
            /\ accs[i].name = name
            /\ \A j \in 1..(i - 1) : accs[j].name # name
    ELSE 0

\* Vec::remove(index)
Remove(accs, index) ==
    [i \in 1..(Len(accs) - 1) |-> IF i < index THEN accs[i] ELSE accs[i + 1]]

\* Storage::delete_account
delete_account(m, name, o) ==
    LET index == Position(m.accounts, name) IN
    IF index # 0
    THEN LET i == Log([m EXCEPT !.accounts = Remove(@, index)], "INFO", o) IN
         IF ~i.r.ok THEN i ELSE save(i.m, o)
    ELSE LET e == Log(m, "ERROR", o) IN
         IF ~e.r.ok THEN e
         ELSE [m |-> e.m, r |-> Err("InvalidInput", "not_found", name)]

\* Mutant of update_account: the replacement is built with the default
\* digits and period.
update_account_Defaults(m, old_name, new_name, new_issuer, o) ==
    LET index == Position(m.accounts, old_name) IN
    IF index # 0
    THEN LET account == m.accounts[index]
             updated_account == Account(new_name, account.secret, default_digits,
                                        default_period,
                                        TotpAlgorithm(account.algorithm), new_issuer)
             i == Log([m EXCEPT !.accounts[index] = updated_account], "INFO", o) IN
         IF ~i.r.ok THEN i ELSE save(i.m, o)
    ELSE LET e == Log(m, "ERROR", o) IN
         IF ~e.r.ok THEN e
         ELSE [m |-> e.m, r |-> Err("InvalidInput", "not_found", old_name)]

\* Storage::update_account
update_account(m, old_name, new_name, new_issuer, o) ==
    LET index == Position(m.accounts, old_name) IN
    IF index # 0
    THEN LET account == m.accounts[index]
             updated_account == Account(new_name, account.secret, account.digits,
                                        account.period,
                                        TotpAlgorithm(account.algorithm), new_issuer)
             i == Log([m EXCEPT !.accounts[index] = updated_account], "INFO", o) IN
         IF ~i.r.ok THEN i ELSE save(i.m, o)
    ELSE LET e == Log(m, "ERROR", o) IN
         IF ~e.r.ok THEN e
         ELSE [m |-> e.m, r |-> Err("InvalidInput", "not_found", old_name)]

\* --------------------------------------------------------------------- TOTP
\* One more than u64::MAX.
U64 == 2 ^ U64Bits
\* The latest reading of the system clock, in seconds since the epoch:
\* SystemTime counts seconds in an i64.
MaxClock == 2 ^ (U64Bits - 1) - 1
\* The readings of the system clock: -1 is a time before the epoch.
Readings == -1..MaxClock

\* The secrets of the model: two of 8 Base32 characters (5 bytes), one of 32
\* (the 20 bytes of RFC 6238), and one of 32 characters with digits that are
\* not in the Base32 alphabet.
ShortSecret == "JBSWY3DP"
LongSecret == "GEZDGNBVGY3TQOJQGEZDGNBVGY3TQOJQ"
NotBase32 == "GEZDGNBVGY3TQOJQGEZDGNBVGY3T0189"

\* Secret::Encoded(secret).to_bytes(): the decoded bytes (their number, and
\* the secret that names them), or an error for a text that is not Base32.
to_bytes(secret) ==
    CASE secret = "" -> [ok |-> TRUE, len |-> 0, key |-> secret]
      [] secret \in {ShortSecret, "GEZDGNBV"} -> [ok |-> TRUE, len |-> 5, key |-> secret]
      [] secret = LongSecret -> [ok |-> TRUE, len |-> 20, key |-> secret]
      [] OTHER -> [ok |-> FALSE, len |-> 0, key |-> secret]

\* What generate_totp and time_remaining can come to.
Code(code) == [outcome |-> "Ok", code |-> code, error |-> "", what |-> ""]
Failure(error, what) == [outcome |-> "Err", code |-> <<>>, error |-> error, what |-> what]
Panic(what) == [outcome |-> "panic", code |-> <<>>, error |-> "", what |-> what]

\* TOTP::new of totp_rs: digits must be 6, 7 or 8 and the secret at least
\* 128 bits long.
TOTP_new(algorithm, digits, skew, step, secret) ==
    IF digits < 6 \/ digits > 8
    THEN [ok |-> FALSE, what |-> "InvalidDigits"]
    ELSE IF secret.len < 16
    THEN [ok |-> FALSE, what |-> "SecretTooSmall"]
    ELSE [ok |-> TRUE, algorithm |-> algorithm, digits |-> digits, skew |-> skew,
          step |-> step, secret |-> secret.key]

\* The HMAC of the counter under the key, after the dynamic truncation and
\* the mask of the top bit: a number of 31 bits. The hash is not computed:
\* a fixed function of algorithm, key and counter stands for it.
Truncated(algorithm, key, counter) ==
    LET k == CASE key = LongSecret -> 1259 [] key = ShortSecret -> 4177
               [] OTHER -> 2903
        a == CASE algorithm = "SHA1" -> 101 [] algorithm = "SHA256" -> 256
               [] algorithm = "SHA512" -> 512 IN
    ((k + a) * 7 + counter) * 16807

\* The decimal digits of a number, most significant first.
RECURSIVE Decimal(_)
Decimal(v) == IF v < 10 THEN <<v>> ELSE Append(Decimal(v \div 10), v % 10)
\* format!("{1:00$}", width, v): the digits of v, zeros on the left up to
\* the width.
Format(v, width) ==
    LET d == Decimal(v) IN
    IF Len(d) >= width THEN d ELSE [i \in 1..(width - Len(d)) |-> 0] \o d

\* Mutant of generate: the counter is the time, not the time over the step.
generate_NoStep(totp, time) ==
    IF totp.step = 0 THEN Panic("divide by zero")
    ELSE Code(Format(Truncated(totp.algorithm, totp.secret, time)
                        % (10 ^ totp.digits), totp.digits))

\* Mutant of generate: the truncated number is not reduced.
generate_NoModulo(totp, time) ==
    IF totp.step = 0 THEN Panic("divide by zero")
    ELSE Code(Format(Truncated(totp.algorithm, totp.secret, time \div totp.step),
                     totp.digits))

\* TOTP::generate of totp_rs.
generate(totp, time) ==
    IF totp.step = 0 THEN Panic("divide by zero")
    ELSE Code(Format(Truncated(totp.algorithm, totp.secret, time \div totp.step)
                        % (10 ^ totp.digits), totp.digits))

\* TOTP::generate_current of totp_rs, when the clock reads t.
generate_current(totp, t) ==
    IF t < 0 THEN Failure("SystemTimeError", "before epoch") ELSE generate(totp, t)

\* Account::generate_totp, when the clock reads t. The unwrap of to_bytes
\* is evaluated before TOTP::new is called.
generate_totp(account, t) ==
    LET secret == to_bytes(account.secret) IN
    IF ~secret.ok THEN Panic("unwrap")
    ELSE LET totp == TOTP_new(TotpAlgorithm(account.algorithm), account.digits, 1,
                              account.period, secret) IN
         IF ~totp.ok THEN Failure("TotpError", totp.what)
         ELSE generate_current(totp, t)

\* u64 arithmetic: the value in a release build, and whether it left the
\* range (a debug build panics there).
Wrapped(x) == [v |-> x % U64, overflow |-> x < 0 \/ x >= U64]

\* Mutant of time_remaining: counted from the last second of the window.
time_remaining_ToLastSecond(account, t) ==
    LET now == IF t < 0 THEN 0 ELSE t IN
    IF account.period = 0 THEN [panic |-> TRUE, overflow |-> FALSE, v |-> 0]
    ELSE LET current_period == now \div account.period
             sum == Wrapped(current_period + 1)
             next_period_start == Wrapped(sum.v * account.period)
             remaining == Wrapped(next_period_start.v - 1 - now) IN
         [panic |-> FALSE,
          overflow |-> sum.overflow \/ next_period_start.overflow
                          \/ remaining.overflow,
          v |-> remaining.v]

\* Account::time_remaining, when the clock reads t: a reading before the
\* epoch counts as 0 (unwrap_or_default).
time_remaining(account, t) ==
    LET now == IF t < 0 THEN 0 ELSE t IN
    IF account.period = 0 THEN [panic |-> TRUE, overflow |-> FALSE, v |-> 0]
    ELSE LET current_period == now \div account.period
             sum == Wrapped(current_period + 1)
             next_period_start == Wrapped(sum.v * account.period)
             remaining == Wrapped(next_period_start.v - now) IN
         [panic |-> FALSE,
          overflow |-> sum.overflow \/ next_period_start.overflow
                          \/ remaining.overflow,
          v |-> remaining.v]

\* ------------------------------------------------------------ model inputs
\* The accounts the caller adds. They share the name "a".
NewAccounts ==
    {Account("a", "JBSWY3DP", 6, 30, "SHA1", None),
     Account("a", "GEZDGNBV", 8, 60, "SHA256", Some("x"))}
Names == {"a", "b"}
\* The new name and issuer an update is called with.
Edits == {[name |-> "b", issuer |-> Some("y")]}

\* Files the program may find when it starts: none, an empty one, one that
\* is no JSON, an array written by an older version (optional fields
\* omitted, all or some), an array whose numbers are out of the documented
\* ranges, and an array whose record lacks the secret.
LegacyFile == Json(<<[name |-> JStr("a"), secret |-> JStr("JBSWY3DP")]>>)
OddFile ==
    Json(<<[name |-> JStr("b"), secret |-> JStr("GEZDGNBV"), digits |-> JNum(9),
            period |-> JNum(0), algorithm |-> JStr("SHA256"), issuer |-> JNull]>>)
BadRecordFile == Json(<<[name |-> JStr("a"), issuer |-> JStr("x")]>>)
\* An array of two records, one without digits, one without period and
\* algorithm.
MixedFile ==
    Json(<<[name |-> JStr("a"), secret |-> JStr("JBSWY3DP"), period |-> JNum(60),
            algorithm |-> JStr("SHA512")],
           [name |-> JStr("b"), secret |-> JStr("GEZDGNBV"), digits |-> JNum(8),
            issuer |-> JStr("x")]>>)
InitContents ==
    {Absent, Empty, Garbage, LegacyFile, OddFile, BadRecordFile, MixedFile}

\* The file systems a run starts from: the content of the two storage files
\* and whether the directory of P2 exists. Either only P1 may exist, or the
\* directory of P2 exists, empty or with a file beside a readable P1.
InitFileSystems ==
    {[p1 |-> c, p2 |-> Absent, d |-> FALSE] : c \in InitContents}
    \cup {[p1 |-> Absent, p2 |-> Absent, d |-> TRUE]}
    \cup {[p1 |-> LegacyFile, p2 |-> c, d |-> TRUE] :
            c \in {Absent, Empty, Garbage, OddFile}}

\* -------------------------------------------------------------------- state
VARIABLES
    pc,                 \* "closed": no Storage exists; "open": one does
    file_path,          \* Storage.file_path
    accounts,           \* Storage.accounts
    logger,             \* Storage.logger is Some
    DIRECTORY_CREATED,  \* the static AtomicBool
    files,              \* the content of every file of the model
    dirs,               \* which directories exist
    steps,              \* operations performed so far
    saved,              \* per path: the accounts of the last complete save, if
                        \* the file still holds what that save wrote
    autocreated,        \* ensure_directory has found no directory and
                        \* create_dir_all has returned Ok, in this process
    last,               \* the last operation: inputs, result, state before
    shown,              \* the last code generation: account, clock, results
    snapshot            \* the Vec the caller got from its last get_accounts

vars ==
    <<pc, file_path, accounts, logger, DIRECTORY_CREATED, files, dirs, steps, saved,
      autocreated, last, shown, snapshot>>

\* The Storage and its environment as one value, for the operators above.
Machine ==
    [file_path |-> file_path, accounts |-> accounts, logger |-> logger,
     created |-> DIRECTORY_CREATED, files |-> files, dirs |-> dirs,
     io |-> <<>>, nlog |-> 0, dir |-> <<>>]

NoAccount == Account("", "", 0, 0, "SHA1", None)

\* The caller holds no list. Of a list it holds: the accounts, the number
\* of store operations since it was returned (2 for two or more), and, when
\* the call before it was a get_accounts too, what that one returned.
NotListed == [has |-> FALSE, accs |-> <<>>, since |-> 0, again |-> FALSE,
              earlier |-> <<>>]
\* The list the caller holds, after one more store operation.
Older(s) == IF s.has /\ s.since < 2 THEN [s EXCEPT !.since = @ + 1] ELSE s

\* No code has been generated.
NotCalled == [called |-> FALSE, at |-> 0, panic |-> FALSE, v |-> 0]
NoGeneration == [has |-> FALSE, account |-> NoAccount, at |-> 0, res |-> Panic("")]
NotShown == [has |-> FALSE, account |-> NoAccount, at |-> 0, res |-> Panic(""),
             remaining |-> NotCalled, prev |-> NoGeneration]

Record(op, out, account, name, new_name, new_issuer, path) ==
    [op |-> op, res |-> out.r, io |-> out.m.io, dir |-> out.m.dir,
     account |-> account, name |-> name, new_name |-> new_name,
     new_issuer |-> new_issuer, path |-> path,
     pre |-> [accounts |-> accounts, file_path |-> file_path, files |-> files,
              dirs |-> dirs, created |-> DIRECTORY_CREATED, pc |-> pc,
              saved |-> saved, autocreated |-> autocreated]]

\* The events of a trace, as a set.
Events(io) == {io[i] : i \in 1..Len(io)}

\* The oracle names only failures that happened: a fault no call ran into
\* gives the run of the oracle without it.
Happened(o, out) ==
    /\ o.log # 0 => out.m.nlog >= o.log
    /\ o.after => "log_failed" \in Events(out.m.io)
    /\ o.io = "mkdir" => "mkdir_failed" \in Events(out.m.io)
    /\ o.io = "create" => "create_failed" \in Events(out.m.io)
    /\ o.io \in {"write_none", "write_part"} => "write_failed" \in Events(out.m.io)
    /\ o.io = "open" => "open_failed" \in Events(out.m.io)
    /\ o.io = "read" => "read_failed" \in Events(out.m.io)
    /\ ~o.rename => "rename_failed" \in Events(out.m.io)

NotSaved == [has |-> FALSE, accs |-> <<>>]
\* What the files hold of completed saves after an operation: a write that
\* completed records the accounts it wrote, any other change of a file
\* forgets them.
Saved(out) ==
    [p \in Paths |->
        IF p = out.m.file_path /\ "write" \in Events(out.m.io)
        THEN [has |-> TRUE, accs |-> out.m.accounts]
        ELSE IF out.m.files[p] = files[p] THEN saved[p] ELSE NotSaved]

\* The state after an operation on an existing Storage.
Commit(out) ==
    /\ file_path' = out.m.file_path
    /\ accounts' = out.m.accounts
    /\ DIRECTORY_CREATED' = out.m.created
    /\ files' = out.m.files
    /\ dirs' = out.m.dirs
    /\ steps' = steps + 1
    /\ saved' = Saved(out)
    /\ autocreated' = (autocreated \/ out.m.dir # <<>>)
    /\ snapshot' = Older(snapshot)
    /\ UNCHANGED <<logger, shown>>

Init ==
    /\ pc = "closed"
    /\ file_path = P1
    /\ accounts = <<>>
    /\ logger = FALSE
    /\ DIRECTORY_CREATED = FALSE
    /\ \E fs \in InitFileSystems :
          /\ files = [f \in FileNames |->
                        IF f = P1 THEN fs.p1 ELSE IF f = P2 THEN fs.p2 ELSE Absent]
          /\ dirs = [x \in Dirs |-> x = "data" /\ fs.d]
    /\ steps = 0
    /\ saved = [p \in Paths |-> NotSaved]
    /\ autocreated = FALSE
    /\ last = [op |-> "init", res |-> Ok, io |-> <<>>, dir |-> <<>>,
               account |-> NoAccount,
               name |-> "", new_name |-> "", new_issuer |-> None, path |-> P1,
               pre |-> [accounts |-> <<>>, file_path |-> P1, files |-> files,
                        dirs |-> dirs, created |-> FALSE, pc |-> "closed",
                        saved |-> saved, autocreated |-> FALSE]]
    /\ shown = NotShown
    /\ snapshot = NotListed

\* ------------------------------------------------------------------ actions
\* main: Storage::new_with_logger(path, logger). An error ends the process.
Open ==
    /\ pc = "closed" /\ steps < MaxSteps
    /\ \E path \in Paths, lg \in BOOLEAN :
       \E o \in Oracles(LoadFaults, lg, BOOLEAN) :
         LET fresh == [Machine EXCEPT !.file_path = path, !.accounts = <<>>,
                                      !.logger = lg]
             out == new_with_logger(fresh, o) IN
         /\ Happened(o, out)
         /\ pc' = IF out.r.ok THEN "open" ELSE "closed"
         /\ file_path' = out.m.file_path
         /\ accounts' = IF out.r.ok THEN out.m.accounts ELSE <<>>
         /\ logger' = lg
         /\ DIRECTORY_CREATED' = (out.r.ok /\ out.m.created)
         /\ files' = out.m.files
         /\ dirs' = out.m.dirs
         /\ steps' = steps + 1
         /\ saved' = Saved(out)
         /\ autocreated' = (out.r.ok /\ out.m.dir # <<>>)
         /\ last' = Record("open", out, NoAccount, "", "", None, path)
         /\ UNCHANGED <<shown, snapshot>>

\* The process ends: the Storage and the static flag go, the files stay.
Exit ==
    /\ pc = "open" /\ steps < MaxSteps
    /\ pc' = "closed"
    /\ accounts' = <<>>
    /\ DIRECTORY_CREATED' = FALSE
    /\ autocreated' = FALSE
    /\ steps' = steps
    /\ last' = Record("exit", [m |-> Machine, r |-> Ok], NoAccount, "", "", None,
                      file_path)
    /\ UNCHANGED <<file_path, logger, files, dirs, saved, shown, snapshot>>

AddAccount ==
    /\ pc = "open" /\ steps < MaxSteps /\ Len(accounts) < MaxAccounts
    /\ \E account \in NewAccounts,
          o \in Oracles(SaveFaults, logger, {TRUE}) :
         LET out == add_account(Machine, account, o) IN
         /\ Happened(o, out)
         /\ Commit(out)
         /\ last' = Record("add", out, account, account.name, "", None, file_path)
         /\ UNCHANGED pc

DeleteAccount ==
    /\ pc = "open" /\ steps < MaxSteps
    /\ \E name \in Names,
          o \in Oracles(SaveFaults, logger, {TRUE}) :
         LET out == delete_account(Machine, name, o) IN
         /\ Happened(o, out)
         /\ Commit(out)
         /\ last' = Record("delete", out, NoAccount, name, "", None, file_path)
         /\ UNCHANGED pc

UpdateAccount ==
    /\ pc = "open" /\ steps < MaxSteps
    /\ \E old_name \in Names, e \in Edits,
          o \in Oracles(SaveFaults, logger, {TRUE}) :
         LET out == update_account(Machine, old_name, e.name, e.issuer, o) IN
         /\ Happened(o, out)
         /\ Commit(out)
         /\ last' = Record("update", out, NoAccount, old_name, e.name, e.issuer,
                           file_path)
         /\ UNCHANGED pc

\* configure_settings calls update_file_path only when the path changed.
UpdateFilePath ==
    /\ pc = "open" /\ steps < MaxSteps
    /\ \E new_path \in Paths \ {file_path},
          o \in Oracles(LoadFaults, logger, {TRUE}) :
         LET out == update_file_path(Machine, new_path, o) IN
         /\ Happened(o, out)
         /\ Commit(out)
         /\ last' = Record("set_path", out, NoAccount, "", "", None, new_path)
         /\ UNCHANGED pc

Next ==
    \/ Open
    \/ Exit
    \/ AddAccount
    \/ DeleteAccount
    \/ UpdateAccount
    \/ UpdateFilePath

Spec == Init /\ [][Next]_vars

\* ------------------------------------------------- code generation, alone
\* The accounts whose codes are generated, with a period of a few seconds:
\* the long secret with every algorithm and 6 to 9 digits, the short secret
\* and the text that is not Base32 with two digit counts.
ShortPeriod == 4
TotpAccounts ==
    {Account("a", LongSecret, d, ShortPeriod, alg, None) :
        d \in 6..9, alg \in {"SHA1", "SHA256", "SHA512"}}
    \cup {Account("a", s, d, ShortPeriod, "SHA1", None) :
            s \in {ShortSecret, NotBase32}, d \in {6, 9}}
\* The clock readings of a code generation.
Instants == -1..MaxTime

\* A store that was opened on accounts.json, holding one account of the set.
HoldingOne(set) ==
    /\ pc = "open"
    /\ file_path = P1
    /\ \E a \in set :
          /\ accounts = <<a>>
          /\ files = [f \in FileNames |->
                        IF f = P1 THEN Json(Serialize(<<a>>)) ELSE Absent]
    /\ logger = FALSE
    /\ DIRECTORY_CREATED = TRUE
    /\ dirs = [x \in Dirs |-> FALSE]
    /\ steps = 0
    /\ saved = [p \in Paths |-> NotSaved]
    /\ autocreated = TRUE
    /\ last = [op |-> "open", res |-> Ok, io |-> <<>>, dir |-> <<"create_dir_all">>,
               account |-> NoAccount,
               name |-> "", new_name |-> "", new_issuer |-> None, path |-> P1,
               pre |-> [accounts |-> <<>>, file_path |-> P1, files |-> files,
                        dirs |-> dirs, created |-> FALSE, pc |-> "closed",
                        saved |-> saved, autocreated |-> FALSE]]
    /\ shown = NotShown
    /\ snapshot = NotListed

TotpInit == HoldingOne(TotpAccounts)

\* The process ends, by a panic.
ProcessEnds ==
    /\ pc' = "closed"
    /\ accounts' = <<>>
    /\ DIRECTORY_CREATED' = FALSE
    /\ autocreated' = FALSE

\* What a call of time_remaining can come to at reading t: the value, or a
\* panic, which a build with overflow checks also has where the arithmetic
\* leaves the u64.
Remaining(account, t) ==
    LET remaining == time_remaining(account, t) IN
    {[called |-> TRUE, at |-> t, panic |-> aborted,
      v |-> IF aborted THEN 0 ELSE remaining.v] :
        aborted \in IF remaining.panic THEN {TRUE}
                    ELSE IF remaining.overflow THEN BOOLEAN ELSE {FALSE}}

\* main.rs generate_totp, up to the two calls: an account picked from the
\* list, its code and the seconds left, each from its own reading of the
\* clock.
GenerateTotp ==
    /\ pc = "open" /\ get_accounts(Machine) # <<>>
    /\ \E i \in 1..Len(get_accounts(Machine)), t \in Instants :
       \E t2 \in {t, t + 1} \cap Instants :
         LET account == get_accounts(Machine)[i]
             totp_result == generate_totp(account, t) IN
         \E remaining \in IF totp_result.outcome = "panic" THEN {NotCalled}
                           ELSE Remaining(account, t2) :
         /\ shown' = [has |-> TRUE, account |-> account, at |-> t,
                      res |-> totp_result, remaining |-> remaining,
                      prev |-> [has |-> shown.has, account |-> shown.account,
                                at |-> shown.at, res |-> shown.res]]
         /\ IF totp_result.outcome = "panic" \/ remaining.panic
            THEN ProcessEnds
            ELSE UNCHANGED <<pc, accounts, DIRECTORY_CREATED, autocreated>>
         /\ UNCHANGED <<file_path, logger, files, dirs, steps, saved, last, snapshot>>

\* main.rs edit_account: an account picked from the list gets a new name and
\* issuer through Storage::update_account, in an environment where every
\* call succeeds.
EditAccount ==
    /\ pc = "open" /\ get_accounts(Machine) # <<>>
    /\ \E i \in 1..Len(get_accounts(Machine)), e \in Edits :
         LET account == get_accounts(Machine)[i]
             out == update_account(Machine, account.name, e.name, e.issuer, NoFault) IN
         /\ accounts' = out.m.accounts
         /\ files' = out.m.files
         /\ dirs' = out.m.dirs
         /\ DIRECTORY_CREATED' = out.m.created
         /\ UNCHANGED <<pc, file_path, logger, steps, saved, autocreated, last, shown,
                        snapshot>>

TotpNext ==
    \/ GenerateTotp
    \/ EditAccount

TotpSpec == TotpInit /\ [][TotpNext]_vars

\* ---------------------------------------------------- time_remaining, alone
\* Accounts of every period a u64 can hold.
PeriodAccounts ==
    {Account("a", LongSecret, default_digits, p, "SHA1", None) : p \in 0..(U64 - 1)}

RemainingInit == HoldingOne(PeriodAccounts)

\* Account::time_remaining is called at some reading of the clock, in a
\* build with or without overflow checks.
TimeRemaining ==
    /\ pc = "open" /\ get_accounts(Machine) # <<>>
    /\ \E i \in 1..Len(get_accounts(Machine)), t \in Readings :
         LET account == get_accounts(Machine)[i] IN
         \E remaining \in Remaining(account, t) :
         /\ shown' = [NotShown EXCEPT !.has = TRUE, !.account = account, !.at = t,
                                      !.remaining = remaining]
         /\ IF remaining.panic
            THEN ProcessEnds
            ELSE UNCHANGED <<pc, accounts, DIRECTORY_CREATED, autocreated>>
         /\ UNCHANGED <<file_path, logger, files, dirs, steps, saved, last, snapshot>>

RemainingNext == TimeRemaining

RemainingSpec == RemainingInit /\ [][RemainingNext]_vars

\* ------------------------------------------------- the store, with lists
ListInit == HoldingOne(NewAccounts)

\* main.rs view_accounts, delete_account, edit_account: the caller takes the
\* list with Storage::get_accounts and keeps it.
ListAccounts ==
    /\ pc = "open"
    /\ LET again == snapshot.has /\ snapshot.since = 0 IN
       snapshot' = [has |-> TRUE, accs |-> get_accounts(Machine), since |-> 0,
                    again |-> again,
                    earlier |-> IF again THEN snapshot.accs ELSE <<>>]
    /\ last' = Record("list", [m |-> Machine, r |-> Ok], NoAccount, "", "", None,
                      file_path)
    /\ UNCHANGED <<pc, file_path, accounts, logger, DIRECTORY_CREATED, files, dirs,
                   steps, saved, autocreated, shown>>

ListNext ==
    \/ ListAccounts
    \/ AddAccount
    \/ DeleteAccount
    \/ UpdateAccount
    \/ UpdateFilePath

ListSpec == ListInit /\ [][ListNext]_vars

\* ------------------------------------------------------ the menus of main
\* What the user types at the prompts of the add and edit flows, and the
\* entries picked in the three menus of get_totp_parameters.
TypedNames == {"", " a ", "b"}
TypedIssuers == {"", "y"}
TypedSecrets ==
    {"", ShortSecret, "gezdgnbv gy3tqojq gezdgnbv gy3tqojq ", NotBase32}
Selections == {[digits |-> 2, period |-> 1, algorithm |-> 2]}

\* str::trim, on the texts of the model.
trim(text) ==
    CASE text = " a " -> "a"
      [] OTHER -> text

\* secret_input.trim().replace(" ", "").to_uppercase(), on the texts of the
\* model: the others are upper case without blanks already.
cleaned(secret_input) ==
    CASE secret_input = "gezdgnbv gy3tqojq gezdgnbv gy3tqojq " -> LongSecret
      [] OTHER -> secret_input

\* String::into_bytes: the bytes of the text itself, one for each character
\* of these ASCII texts. Nothing is decoded.
into_bytes(text) == [ok |-> TRUE, len |-> Len(text), key |-> text]

\* One round of the loop of get_validated_secret: the cleaned secret that is
\* returned, or a refusal, after which the prompt comes again.
get_validated_secret(secret_input) ==
    LET cleaned_secret == cleaned(secret_input)
        refused == [ok |-> FALSE, secret |-> ""] IN
    IF cleaned_secret = "" THEN refused
    ELSE IF Len(cleaned_secret) < 26 THEN refused
    ELSE LET test_totp == TOTP_new("SHA1", 6, 1, 30, into_bytes(cleaned_secret)) IN
         IF test_totp.ok THEN [ok |-> TRUE, secret |-> cleaned_secret] ELSE refused

\* get_totp_parameters: the values of the picked entries.
get_totp_parameters(sel) ==
    [digits |-> CASE sel.digits = 0 -> 6 [] sel.digits = 1 -> 7
                  [] sel.digits = 2 -> 8 [] OTHER -> 6,
     period |-> CASE sel.period = 0 -> 30 [] sel.period = 1 -> 60
                  [] sel.period = 2 -> 90 [] OTHER -> 30,
     algorithm |-> CASE sel.algorithm = 0 -> "SHA1" [] sel.algorithm = 1 -> "SHA256"
                     [] sel.algorithm = 2 -> "SHA512" [] OTHER -> "SHA1"]

\* One round of the loop of get_new_account_details: name and issuer, or a
\* refusal of the empty name.
get_new_account_details(name, issuer) ==
    LET trimmed_name == trim(name) IN
    IF trimmed_name = "" THEN [ok |-> FALSE, name |-> "", issuer |-> None]
    ELSE [ok |-> TRUE, name |-> trimmed_name,
          issuer |-> IF trim(issuer) = "" THEN None ELSE Some(trim(issuer))]

\* One round of the loop of get_edit_account_details: the prompts return
\* the current value when nothing is typed.
get_edit_account_details(current_name, current_issuer, name, issuer) ==
    get_new_account_details(IF name = "" THEN current_name ELSE name,
                            IF issuer = "" /\ current_issuer.some
                            THEN current_issuer.v ELSE issuer)

\* select_account: the only account, or the one picked.
select_account(accs, selection) == IF Len(accs) = 1 THEN accs[1] ELSE accs[selection]

\* The environment of the menus: the calls of the Logger succeed, the
\* storage file may fail to be created or written.
MenuOracles == {o \in Oracles(SaveFaults, logger, {TRUE}) : o.log = 0 /\ ~o.after}

\* main has started: the Storage is open on the default path with a logger,
\* no file is there yet.
MenuInit ==
    /\ pc = "open"
    /\ file_path = P1
    /\ accounts = <<>>
    /\ logger = TRUE
    /\ DIRECTORY_CREATED = TRUE
    /\ files = [f \in FileNames |-> Absent]
    /\ dirs = [x \in Dirs |-> FALSE]
    /\ steps = 0
    /\ saved = [p \in Paths |-> NotSaved]
    /\ autocreated = TRUE
    /\ last = [op |-> "open", res |-> Ok, io |-> <<"WARN", "INFO">>,
               dir |-> <<"create_dir_all", "WARN", "INFO">>,
               account |-> NoAccount,
               name |-> "", new_name |-> "", new_issuer |-> None, path |-> P1,
               pre |-> [accounts |-> <<>>, file_path |-> P1, files |-> files,
                        dirs |-> dirs, created |-> FALSE, pc |-> "closed",
                        saved |-> saved, autocreated |-> FALSE]]
    /\ shown = NotShown
    /\ snapshot = NotListed

\* A handler of the menu has called the Storage. When it returns an error to
\* run_main_loop, the loop passes it on with ? and main returns: the process
\* ends.
Handled(out, returned) ==
    /\ file_path' = out.m.file_path
    /\ files' = out.m.files
    /\ dirs' = out.m.dirs
    /\ steps' = steps + 1
    /\ saved' = Saved(out)
    /\ snapshot' = Older(snapshot)
    /\ IF returned.ok
       THEN /\ accounts' = out.m.accounts
            /\ DIRECTORY_CREATED' = out.m.created
            /\ autocreated' = (autocreated \/ out.m.dir # <<>>)
            /\ UNCHANGED pc
       ELSE ProcessEnds
    /\ UNCHANGED <<logger, shown>>

\* main.rs add_account: the prompts, Account::new, Storage::add_account. An
\* error of the Storage is printed and the handler returns Ok.
MenuAddAccount ==
    /\ pc = "open" /\ steps < MaxSteps /\ Len(accounts) < MaxAccounts
    /\ \E typed \in TypedNames, secret_input \in TypedSecrets, sel \in Selections,
          o \in MenuOracles :
         LET details == get_new_account_details(typed, "")
             secret == get_validated_secret(secret_input)
             params == get_totp_parameters(sel)
             account == Account(details.name, secret.secret, params.digits,
                                params.period, params.algorithm, details.issuer)
             out == add_account(Machine, account, o)
             info == IF out.r.ok THEN Log(out.m, "INFO", o) ELSE out IN
         /\ details.ok /\ secret.ok
         /\ Happened(o, out)
         /\ Handled(info, Ok)
         /\ last' = Record("add", out, account, account.name, "", None, file_path)

\* main.rs edit_account: the account picked from the list, the prompts,
\* Storage::update_account(..)?.
MenuEditAccount ==
    /\ pc = "open" /\ steps < MaxSteps /\ get_accounts(Machine) # <<>>
    /\ \E selection \in 1..Len(get_accounts(Machine)), typed \in TypedNames,
          issuer \in TypedIssuers, o \in MenuOracles :
         LET account == select_account(get_accounts(Machine), selection)
             details == get_edit_account_details(account.name, account.issuer,
                                                 typed, issuer)
             out == update_account(Machine, account.name, details.name,
                                   details.issuer, o)
             info == IF out.r.ok THEN Log(out.m, "INFO", o) ELSE out IN
         /\ details.ok
         /\ Happened(o, out)
         /\ Handled(info, info.r)
         /\ last' = Record("update", out, account, account.name, details.name,
                           details.issuer, file_path)

\* main.rs delete_account: the account picked from the list, the deletion
\* confirmed, Storage::delete_account(..)?.
MenuDeleteAccount ==
    /\ pc = "open" /\ steps < MaxSteps /\ get_accounts(Machine) # <<>>
    /\ \E selection \in 1..Len(get_accounts(Machine)), o \in MenuOracles :
         LET account == select_account(get_accounts(Machine), selection)
             out == delete_account(Machine, account.name, o)
             info == IF out.r.ok THEN Log(out.m, "INFO", o) ELSE out IN
         /\ Happened(o, out)
         /\ Handled(info, info.r)
         /\ last' = Record("delete", out, account, account.name, "", None, file_path)

\* main.rs generate_totp: the account picked from the list, its code and
\* the seconds left, at the last reading of the clock.
MenuGenerateTotp ==
    /\ pc = "open" /\ get_accounts(Machine) # <<>>
    /\ \E selection \in 1..Len(get_accounts(Machine)), t \in {MaxTime} :
         LET account == select_account(get_accounts(Machine), selection)
             totp_result == generate_totp(account, t) IN
         \E remaining \in IF totp_result.outcome = "panic" THEN {NotCalled}
                           ELSE Remaining(account, t) :
         /\ shown' = [NotShown EXCEPT !.has = TRUE, !.account = account, !.at = t,
                                      !.res = totp_result, !.remaining = remaining]
         /\ IF totp_result.outcome = "panic" \/ remaining.panic
            THEN ProcessEnds
            ELSE UNCHANGED <<pc, accounts, DIRECTORY_CREATED, autocreated>>
         /\ UNCHANGED <<file_path, logger, files, dirs, steps, saved, last, snapshot>>

MenuNext ==
    \/ MenuAddAccount
    \/ MenuEditAccount
    \/ MenuDeleteAccount
    \/ MenuGenerateTotp

MenuSpec == MenuInit /\ [][MenuNext]_vars

\* ------------------------------------------------------------ properties
\* Storage::get_accounts on the current store.
list == get_accounts(Machine)

Mutating == {"add", "update", "delete"}
\* The operation reached File::create.
Wrote == Events(last.io) \cap {"create", "write", "write_failed"} # {}
\* Number of occurrences of an account in a list.
Count(accs, a) == Cardinality({i \in 1..Len(accs) : accs[i] = a})

\* C1: after an add, update or delete that returned Ok, the file at the
\* bound path deserializes to exactly the in-memory account sequence.
C1_FileMirrorsMemoryAfterOk ==
    (last.op \in Mutating /\ last.res.ok) =>
        /\ Parses(files[file_path])
        /\ Deserialize(files[file_path]) = accounts

\* An Ok add onto a store whose memory and file had diverged through an
\* earlier failure.
C1_Witness ==
    /\ last.op = "add" /\ last.res.ok /\ Len(accounts) = 2
    /\ last.pre.files[last.pre.file_path] # Json(Serialize(last.pre.accounts))

\* C2 (as claimed): an add, update or delete that returns an error leaves
\* the in-memory collection as it was and does not write the file.
C2_FailureLeavesMemoryAndFile ==
    (last.op \in Mutating /\ ~last.res.ok) =>
        /\ accounts = last.pre.accounts
        /\ ~Wrote
        /\ files = last.pre.files

\* C3 (as claimed): after a save, also one whose write failed, the file
\* holds the complete previous content or the complete new collection.
C3_SaveIsAtomic ==
    (last.op \in Mutating) =>
        \/ files[file_path] = last.pre.files[file_path]
        \/ files[file_path] = Json(Serialize(accounts))

\* The file an open or set_path was pointed at, before the call.
Target == last.pre.files[last.path]
\* The directory of that file existed before the call.
TargetDirExisted == Parent(last.path) # "" /\ last.pre.dirs[Parent(last.path)]
\* open found a file that is there, is not empty and is no array of accounts.
OpenedUnparseable ==
    /\ last.op = "open"
    /\ Target.kind \notin {"absent", "empty"}
    /\ ~Parses(Target)

\* C4 (as claimed): opening a store on a file that does not parse returns
\* Ok with zero accounts and leaves the original content at <path>.bak.
C4_UnparseableOpensEmptyWithBak ==
    OpenedUnparseable =>
        /\ last.res.ok /\ pc = "open"
        /\ accounts = <<>>
        /\ files[Bak(last.path)] = Target

\* C4 (amended): once the directory check has passed, open returns Ok with
\* zero accounts and tries the rename: done, the original content is at
\* <path>.bak and <path> is gone; failed, the original stays at <path>. The
\* only error is the one of the directory check, which changes no file.
C4_UnparseableOpensEmptyBakBestEffort ==
    OpenedUnparseable =>
        /\ last.res.ok =>
              /\ pc = "open" /\ accounts = <<>>
              /\ IF "rename" \in Events(last.io)
                 THEN files[Bak(last.path)] = Target /\ files[last.path] = Absent
                 ELSE /\ "rename_failed" \in Events(last.io)
                      /\ files = last.pre.files
        /\ ~last.res.ok =>
              /\ last.res.what \in {"mkdir", "log"}
              /\ ~TargetDirExisted
              /\ files = last.pre.files

\* An unparseable file was opened and moved to <path>.bak.
C4_Witness ==
    /\ OpenedUnparseable /\ last.res.ok
    /\ files[Bak(last.path)] = Target /\ files[last.path] = Absent

\* open found an empty file.
OpenedEmpty == last.op = "open" /\ Target.kind = "empty"
\* ... and could read it.
ReadTarget == Events(last.io) \cap {"open_failed", "read_failed"} = {}

\* C5 (as claimed): an empty file is handled like an unparseable one: an
\* error event is sent, the file is renamed to <path>.bak, the store
\* continues empty.
C5_EmptyHandledAsUnparseable ==
    (OpenedEmpty /\ last.res.ok /\ ReadTarget) =>
        /\ logger => "ERROR" \in Events(last.io)
        /\ files[Bak(last.path)] = Target /\ files[last.path] = Absent
        /\ accounts = <<>>

\* C5 (amended): an empty file that was read is no error: no error event is
\* sent, the store continues empty, and the file stays in place with a
\* warning sent; only when that warning cannot be delivered is the file
\* renamed to <path>.bak (best effort).
C5_EmptyIsWarningOnly ==
    (OpenedEmpty /\ last.res.ok /\ ReadTarget) =>
        /\ "ERROR" \notin Events(last.io)
        /\ accounts = <<>> /\ pc = "open"
        /\ IF "log_failed" \notin Events(last.io)
           THEN /\ logger => last.io[Len(last.io)] = "WARN"
                /\ files = last.pre.files
           ELSE \/ files[Bak(last.path)] = Target /\ files[last.path] = Absent
                \/ "rename_failed" \in Events(last.io) /\ files = last.pre.files

\* An empty file was opened with a working logger and is still in place.
C5_Witness ==
    /\ OpenedEmpty /\ last.res.ok /\ logger
    /\ "WARN" \in Events(last.io)
    /\ files[last.path] = Empty

\* open found no file.
OpenedAbsent == last.op = "open" /\ Target.kind = "absent"

\* C6 (as claimed): opening a store where no file exists returns Ok with an
\* empty collection and creates neither the file nor a .bak file.
C6_AbsentOpensEmpty ==
    OpenedAbsent =>
        /\ last.res.ok /\ pc = "open"
        /\ accounts = <<>>
        /\ files[last.path] = Absent /\ files[Bak(last.path)] = Absent

\* C6 (amended): opening a store where no file exists creates neither the
\* file nor a .bak file and returns Ok with an empty collection, unless the
\* parent directory was missing and creating it, or notifying of it, failed:
\* then that error is returned.
C6_AbsentOpensEmptyUnlessDirectoryFails ==
    OpenedAbsent =>
        /\ files = last.pre.files
        /\ last.res.ok => (pc = "open" /\ accounts = <<>>)
        /\ ~last.res.ok =>
              /\ ~TargetDirExisted
              /\ last.res.what \in {"mkdir", "log"}
              /\ pc = "closed"

\* A store was opened where no file exists, after creating the directory.
C6_Witness ==
    /\ OpenedAbsent /\ last.res.ok /\ pc = "open"
    /\ "mkdir" \in Events(last.io)

\* What a file holds, read as the claim reads it.
Held(content) ==
    IF content.kind \in {"absent", "empty"} THEN <<>> ELSE Deserialize(content)

\* C7 (as claimed): after set_path(new_path) returns Ok the in-memory
\* collection is exactly what the file at new_path holds, empty when that
\* file is absent or empty.
C7_SetPathReloads ==
    (last.op = "set_path" /\ last.res.ok) => accounts = Held(files[file_path])

\* A load that returned Ok: every Ok set_path, and an open that found a file
\* and did not go on to rename it.
Loaded ==
    \/ last.op = "set_path" /\ last.res.ok
    \/ /\ last.op = "open" /\ last.res.ok /\ Target.kind # "absent"
       /\ Events(last.io) \cap {"rename", "rename_failed"} = {}

\* C8: loading from a path whose file holds what a save of N accounts wrote
\* yields those N accounts, equal in every field and in the same order.
C8_SaveLoadRoundTrip ==
    (Loaded /\ last.pre.saved[last.path].has) =>
        accounts = last.pre.saved[last.path].accs

\* Two saved accounts, one without and one with an issuer, were loaded back.
C8_Witness ==
    /\ Loaded /\ last.pre.saved[last.path].has
    /\ Len(accounts) = 2
    /\ \E i, j \in 1..2 : ~accounts[i].issuer.some /\ accounts[j].issuer.some

\* C9: after add(a) on a store that did not contain a, list() contains a
\* exactly once and every account listed before is still listed.
C9_AddThenListedOnce ==
    (last.op = "add" /\ Count(last.pre.accounts, last.account) = 0) =>
        /\ \A i \in 1..Len(last.pre.accounts) :
              i <= Len(list) /\ list[i] = last.pre.accounts[i]
        /\ Count(list, last.account) <= 1
        /\ last.res.ok => Count(list, last.account) = 1

\* An add that returned Ok on a store holding another account.
C9_Witness ==
    /\ last.op = "add" /\ last.res.ok
    /\ Count(last.pre.accounts, last.account) = 0
    /\ last.pre.accounts # <<>>
    /\ Count(list, last.account) = 1

\* delete or update was called with a name no stored account has.
NameAbsent ==
    /\ last.op \in {"delete", "update"}
    /\ Position(last.pre.accounts, last.name) = 0

\* C10 (as claimed): delete and update with a name no stored account has
\* return the not-found error naming it, leave the collection unchanged and
\* do not write the file.
C10_AbsentNameIsNotFound ==
    NameAbsent =>
        /\ last.res = Err("InvalidInput", "not_found", last.name)
        /\ accounts = last.pre.accounts
        /\ ~Wrote /\ files = last.pre.files

\* The index of the account an update was called for, in the list before.
Matched == Position(last.pre.accounts, last.name)

\* C11: an update that returned Ok changed only the name and the issuer of
\* the matched account: its secret, digits, period and algorithm are as
\* before, and every other account is unchanged, in the same place.
C11_UpdateChangesNameAndIssuerOnly ==
    (last.op = "update" /\ last.res.ok) =>
        /\ Matched # 0
        /\ Len(accounts) = Len(last.pre.accounts)
        /\ \A i \in 1..Len(accounts) :
              IF i = Matched
              THEN accounts[i] = [last.pre.accounts[i] EXCEPT
                                    !.name = last.new_name,
                                    !.issuer = last.new_issuer]
              ELSE accounts[i] = last.pre.accounts[i]

\* An Ok update of one of two accounts, the matched one with digits, period
\* and algorithm that are not the defaults, and a new name and issuer.
C11_Witness ==
    /\ last.op = "update" /\ last.res.ok /\ Len(accounts) = 2
    /\ last.pre.accounts[Matched].digits # default_digits
    /\ last.pre.accounts[Matched].period # default_period
    /\ last.pre.accounts[Matched].algorithm # default_algorithm
    /\ accounts[Matched].issuer # last.pre.accounts[Matched].issuer

\* The Storage and its environment before the last operation.
Before ==
    [file_path |-> last.pre.file_path, accounts |-> last.pre.accounts,
     logger |-> logger, created |-> last.pre.created, files |-> last.pre.files,
     dirs |-> last.pre.dirs, io |-> <<>>, nlog |-> 0, dir |-> <<>>]
\* The last operation, run again from the state before it with every file
\* system call and every Logger call succeeding.
Undisturbed ==
    CASE last.op = "open" ->
            new_with_logger([Before EXCEPT !.file_path = last.path,
                                           !.accounts = <<>>], NoFault)
      [] last.op = "add" -> add_account(Before, last.account, NoFault)
      [] last.op = "delete" -> delete_account(Before, last.name, NoFault)
      [] last.op = "update" ->
            update_account(Before, last.name, last.new_name, last.new_issuer,
                           NoFault)
      [] last.op = "set_path" -> update_file_path(Before, last.path, NoFault)
\* The only calls of the last operation that failed are Logger calls.
OnlyLogFailed ==
    /\ "log_failed" \in Events(last.io)
    /\ Events(last.io) \cap {"mkdir_failed", "create_failed", "write_failed",
                             "open_failed", "read_failed", "rename_failed"} = {}

\* C12 (as claimed): a Logger call that fails does not fail the store
\* operation and changes nothing: the result, the accounts in memory and
\* the files are those of the same operation with every Logger call
\* succeeding.
C12_NotifierFailureChangesNothing ==
    (last.op \in {"open", "add", "delete", "update", "set_path"} /\ OnlyLogFailed) =>
        /\ last.res = Undisturbed.r
        /\ accounts = Undisturbed.m.accounts
        /\ files = Undisturbed.m.files

\* The events delivered for directory creations in the last operation.
DirectoryNotes == [i \in {j \in 1..Len(last.dir) : last.dir[j] # "create_dir_all"}
                      |-> last.dir[i]]
\* No Logger call of the last operation failed.
LoggerWorked == "log_failed" \notin Events(last.io)

\* C13 (as claimed): of the directory creations of one process only the
\* first sends events, one WARN followed by one INFO; an operation that
\* creates a directory after an earlier creation of the process sends
\* none. (The first creation is looked at only when every Logger call of
\* its operation was answered with Ok.)
C13_OnlyFirstAutoCreationNotifies ==
    (logger /\ last.op \in {"open", "add", "delete", "update", "set_path"}
            /\ last.dir # <<>>) =>
        IF last.pre.autocreated
        THEN DOMAIN DirectoryNotes = {}
        ELSE LoggerWorked =>
                /\ Len(last.dir) >= 3
                /\ last.dir[1] = "create_dir_all"
                /\ last.dir[2] = "WARN" /\ last.dir[3] = "INFO"
                /\ DOMAIN DirectoryNotes = {2, 3}

\* time_remaining was called for an account with a period above 0, at a
\* reading of the clock that is not before the epoch.
RemainingAsked ==
    /\ shown.has /\ shown.remaining.called
    /\ shown.account.period > 0 /\ shown.remaining.at >= 0

\* C14: for every clock reading now >= 0 and every period > 0,
\* time_remaining returns period - (now mod period) and its arithmetic stays
\* inside the u64 (no panic in any build): the result is in 1..period, is
\* the period exactly on a window boundary, and is one less a second later
\* in the same window.
C14_TimeRemainingInWindow ==
    RemainingAsked =>
        LET period == shown.account.period
            now == shown.remaining.at
            v == shown.remaining.v IN
        /\ ~shown.remaining.panic
        /\ v = period - (now % period)
        /\ v \in 1..period
        /\ (v = period) <=> (now % period = 0)
        /\ (now + 1 <= MaxClock /\ (now + 1) % period # 0) =>
              \A next \in Remaining(shown.account, now + 1) :
                  ~next.panic /\ next.v = v - 1

\* time_remaining was called on a window boundary after the epoch and gave
\* the whole period.
C14_Witness ==
    /\ RemainingAsked
    /\ shown.account.period > 1
    /\ shown.remaining.at > 0 /\ shown.remaining.at % shown.account.period = 0
    /\ shown.remaining.v = shown.account.period

\* A sequence of exactly n decimal digits.
IsDigits(code, n) == Len(code) = n /\ \A i \in 1..Len(code) : code[i] \in 0..9
\* The number a sequence of decimal digits writes.
RECURSIVE Number(_)
Number(code) ==
    IF code = <<>> THEN 0
    ELSE Number(SubSeq(code, 1, Len(code) - 1)) * 10 + code[Len(code)]
\* A code was asked for an account whose secret is Base32, with 6, 7 or 8
\* digits and a period above 0.
ValidAsked ==
    /\ shown.has
    /\ to_bytes(shown.account.secret).ok
    /\ shown.account.digits \in 6..8
    /\ shown.account.period > 0

\* C15 (as claimed): for every valid Base32 secret, digits in {6,7,8},
\* period > 0 and each algorithm, code generation succeeds and returns
\* exactly `digits` decimal digits. (Looked at for clock readings that are
\* not before the epoch.)
C15_ValidSecretGeneratesDigits ==
    (ValidAsked /\ shown.at >= 0) =>
        /\ shown.res.outcome = "Ok"
        /\ IsDigits(shown.res.code, shown.account.digits)

\* C15 (amended): with such an account code generation succeeds when the
\* secret decodes to at least 16 bytes and the clock is not before the
\* epoch, and then returns exactly `digits` decimal digits that write the
\* 31-bit truncated number modulo 10^digits, zeros on the left; a shorter
\* secret gives the TotpError of TOTP::new, a clock before the epoch the
\* SystemTimeError.
C15_LongSecretGeneratesDigits ==
    ValidAsked =>
        LET a == shown.account IN
        IF to_bytes(a.secret).len < 16
        THEN shown.res = Failure("TotpError", "SecretTooSmall")
        ELSE IF shown.at < 0
        THEN shown.res.outcome = "Err" /\ shown.res.error = "SystemTimeError"
        ELSE /\ shown.res.outcome = "Ok"
             /\ IsDigits(shown.res.code, a.digits)
             /\ Number(shown.res.code) =
                    Truncated(TotpAlgorithm(a.algorithm), a.secret,
                              shown.at \div a.period) % (10 ^ a.digits)

\* A code was generated whose truncated number had more digits than asked
\* for and whose remainder needed a zero on the left.
C15_Witness ==
    /\ ValidAsked /\ shown.res.outcome = "Ok"
    /\ Truncated(TotpAlgorithm(shown.account.algorithm), shown.account.secret,
                 shown.at \div shown.account.period) >= 10 ^ shown.account.digits
    /\ shown.res.code[1] = 0

\* C16 (as claimed): code generation for an account whose secret does not
\* decode as Base32 returns an error value to the caller and the process
\* goes on.
C16_BadSecretIsAnError ==
    (shown.has /\ ~to_bytes(shown.account.secret).ok) =>
        /\ shown.res.outcome = "Err"
        /\ pc = "open"

\* Two accounts with the same secret, digits, period and algorithm.
SameParams(a, b) ==
    /\ a.secret = b.secret /\ a.digits = b.digits
    /\ a.period = b.period /\ a.algorithm = b.algorithm
\* The last two generations were for accounts of the same parameters, at
\* two readings of the clock in the same period window.
SameWindow ==
    /\ shown.has /\ shown.prev.has
    /\ SameParams(shown.account, shown.prev.account)
    /\ shown.account.period > 0
    /\ shown.at >= 0 /\ shown.prev.at >= 0
    /\ shown.at \div shown.account.period = shown.prev.at \div shown.account.period

\* C17: code generation depends on secret, digits, period, algorithm and
\* floor(now / period) only: two generations in the same period window
\* return the same code, whatever store operation came between them.
C17_SameWindowSameCode == SameWindow => shown.res = shown.prev.res

\* Two codes of one window, read at different seconds, with the account
\* renamed in between.
C17_Witness ==
    /\ SameWindow /\ shown.res.outcome = "Ok"
    /\ shown.at # shown.prev.at
    /\ shown.account.name # shown.prev.account.name

\* C18: get_accounts never fails and changes nothing; it returns the
\* accounts of the store as they are; two calls with no store operation
\* between them return the same list; and the list the caller holds is the
\* one it was given, whatever add, update, delete or set_path did to the
\* store afterwards.
C18_ListIsASnapshot ==
    /\ last.op = "list" =>
          /\ last.res.ok
          /\ snapshot.has /\ snapshot.accs = accounts
          /\ accounts = last.pre.accounts /\ files = last.pre.files
          /\ file_path = last.pre.file_path /\ dirs = last.pre.dirs
          /\ DIRECTORY_CREATED = last.pre.created /\ saved = last.pre.saved
    /\ (last.op = "list" /\ snapshot.again) => snapshot.accs = snapshot.earlier
    /\ (snapshot.has /\ snapshot.since = 1) =>
          /\ last.op \in {"add", "update", "delete", "set_path"}
          /\ snapshot.accs = last.pre.accounts

\* The caller holds a list of one account and the store, after one
\* operation since, holds other accounts.
C18_Witness ==
    /\ snapshot.has /\ snapshot.since = 1
    /\ Len(snapshot.accs) = 1
    /\ accounts # snapshot.accs

\* A load that returned Ok read an array of account records.
LoadedRecords == Loaded /\ Parses(Target)

\* C19: a loaded record that omits digits, period or algorithm gives an
\* account with 6 digits, a period of 30 and SHA1 in the place of each
\* omitted field, and the fields that are present as they are written.
C19_OmittedFieldsTakeDefaults ==
    LoadedRecords =>
        /\ Len(accounts) = Len(Target.recs)
        /\ \A i \in 1..Len(accounts) :
              LET j == Target.recs[i]
                  a == accounts[i] IN
              /\ a.name = j.name.s /\ a.secret = j.secret.s
              /\ a.digits = IF "digits" \in DOMAIN j THEN j.digits.n ELSE 6
              /\ a.period = IF "period" \in DOMAIN j THEN j.period.n ELSE 30
              /\ TotpAlgorithm(a.algorithm) =
                    IF "algorithm" \in DOMAIN j THEN j.algorithm.s ELSE "SHA1"

\* Records were loaded of which one omits the digits only and another the
\* period and the algorithm only.
C19_Witness ==
    /\ LoadedRecords /\ Len(accounts) = 2
    /\ \E i, k \in 1..2 :
          /\ DOMAIN Target.recs[i] \cap {"digits", "period", "algorithm"}
                = {"period", "algorithm"}
          /\ accounts[i].digits = 6 /\ accounts[i].period # 30
          /\ DOMAIN Target.recs[k] \cap {"digits", "period", "algorithm"}
                = {"digits"}
          /\ accounts[k].digits # 6 /\ accounts[k].period = 30

\* The file at a path holds exactly these accounts (no file: none).
Holds(content, accs) ==
    IF content.kind = "absent" THEN accs = <<>>
    ELSE Parses(content) /\ Deserialize(content) = accs
\* An add failed at File::create or at write_all.
AddWriteFailed ==
    /\ last.op = "add" /\ ~last.res.ok
    /\ Events(last.io) \cap {"create_failed", "write_failed"} # {}

Named == {i \in 1..Len(last.pre.accounts) : last.pre.accounts[i].name = last.name}
LaterOfName == {i \in Named : \E j \in Named : j < i}

\* C21: add appends an account whose name is already stored; update and
\* delete by a name that several accounts have act on the first of them
\* only: every later account of that name stays, unchanged.
C21_FirstOfNameOnly ==
    /\ (last.op = "add" /\ last.res.ok) =>
          accounts = Append(last.pre.accounts, last.account)
    /\ (last.op = "delete" /\ Named # {}) =>
          /\ Len(accounts) = Len(last.pre.accounts) - 1
          /\ \A i \in LaterOfName : accounts[i - 1] = last.pre.accounts[i]
    /\ (last.op = "update" /\ Named # {}) =>
          /\ Len(accounts) = Len(last.pre.accounts)
          /\ \A i \in LaterOfName : accounts[i] = last.pre.accounts[i]

\* Of two different accounts of one name a delete by that name left the
\* second.
C21_Witness ==
    /\ last.op = "delete" /\ last.res.ok
    /\ Named = {1, 2} /\ LaterOfName = {2}
    /\ last.pre.accounts[1] # last.pre.accounts[2]
    /\ accounts = <<last.pre.accounts[2]>>

\* File::create or write_all failed in the last add, update or delete.
PersistFailed ==
    /\ last.op \in Mutating
    /\ Events(last.io) \cap {"create_failed", "write_failed"} # {}

\* C22: an add, update or delete whose File::create or write_all failed
\* returns an error, the FileError; and none of the three returns Ok with a
\* file that does not hold the accounts in memory.
C22_PersistFailureIsReturned ==
    /\ PersistFailed => (~last.res.ok /\ last.res.kind = "FileError")
    /\ (last.op \in Mutating /\ last.res.ok) =>
          /\ "write" \in Events(last.io)
          /\ Holds(files[file_path], accounts)

\* A delete removed the account in memory, write_all failed, and the call
\* returned the error with the file cut short.
C22_Witness ==
    /\ PersistFailed /\ last.op = "delete" /\ ~last.res.ok
    /\ "write_failed" \in Events(last.io)
    /\ Len(accounts) < Len(last.pre.accounts)
    /\ ~Holds(files[file_path], accounts)

\* open found a file that it could not open, read or parse.
OpenedUnusable ==
    /\ last.op = "open" /\ Target.kind # "absent"
    /\ \/ Events(last.io) \cap {"open_failed", "read_failed"} # {}
       \/ Target.kind # "empty" /\ ~Parses(Target)

\* C23 (as claimed): open returns Ok with no accounts whenever the file is
\* there and cannot be opened, read or parsed, also when the rename to
\* <path>.bak fails.
C23_UnusableFileOpensEmpty ==
    OpenedUnusable =>
        /\ last.res.ok /\ pc = "open"
        /\ accounts = <<>>

\* C25 (as claimed): every account a store holds has 6, 7 or 8 digits and a
\* period above zero, whether it was added or loaded.
C25_HeldAccountsInRange ==
    pc = "open" =>
        \A i \in 1..Len(accounts) :
            /\ accounts[i].digits \in {6, 7, 8}
            /\ accounts[i].period > 0

\* C28 (as claimed): update_file_path that returns an error leaves the path
\* and the accounts of the Storage as they were.
C28_SetPathIsAllOrNothing ==
    (last.op = "set_path" /\ ~last.res.ok) =>
        /\ file_path = last.pre.file_path
        /\ accounts = last.pre.accounts

\* accs is old without its k-th account, the others in their order.
Without(old, k, accs) ==
    /\ k \in 1..Len(old) /\ Len(accs) = Len(old) - 1
    /\ \A i \in 1..Len(accs) : accs[i] = IF i < k THEN old[i] ELSE old[i + 1]

\* accs is old with another account in the k-th place.
Replaced(old, k, accs) ==
    /\ k \in 1..Len(old) /\ Len(accs) = Len(old)
    /\ \A i \in 1..Len(old) : i # k => accs[i] = old[i]

C30_SetPathMutatesNoFile ==
    last.op = "set_path" =>
        /\ files = last.pre.files
        /\ Events(last.io) \cap {"create", "create_failed", "write", "write_failed",
                                 "rename", "rename_failed"} = {}

\* update_file_path went to a path whose file does not parse, with accounts
\* in memory, and returned the error.
C30_Witness ==
    /\ last.op = "set_path" /\ ~last.res.ok
    /\ Target.kind = "garbage"
    /\ last.pre.accounts # <<>>
    /\ files[last.path] = Target /\ files[Bak(last.path)] = Absent
    /\ files[last.pre.file_path] = last.pre.files[last.pre.file_path]

\* C24 (as claimed): through the add and edit flows of the caller no two
\* accounts of the store get the same name.
C24_NamesAreUnique ==
    pc = "open" =>
        \A i, j \in 1..Len(accounts) : accounts[i].name = accounts[j].name => i = j

\* C26 (as claimed): a secret that the add flow accepted decodes as Base32,
\* and the generation for an account of the add flow does not fail on the
\* decoding of its secret.
C26_AcceptedSecretDecodes ==
    /\ last.op = "add" => to_bytes(last.account.secret).ok
    /\ shown.has => shown.res # Panic("unwrap")

\* C27 (as claimed): when the Storage returns an error from a delete or an
\* update, the application stays in its main loop.
C27_StoreErrorKeepsTheLoop ==
    (last.op \in {"delete", "update"} /\ ~last.res.ok) => pc = "open"

====
